---------------------------- MODULE Spec2Model ----------------------------
(* A model of the tis31337 emulator (src/src/main.rs): a line-oriented      *)
(* assembly interpreter over two registers, acc and bak.  Source text is    *)
(* modelled as sequences of one-character strings so that trimming,         *)
(* tokenising, lower-casing and integer parsing are computed, not assumed.  *)
EXTENDS Integers, Sequences, FiniteSets, TLC

VARIABLES lines, program, labels, acc, bak, pc, phase, err_line, err_msg, steps

vars == <<lines, program, labels, acc, bak, pc, phase, err_line, err_msg, steps>>

(***************************************************************************)
(* Numbers                                                                 *)
(***************************************************************************)
\* clamp_acc's upper limit
ACC_MAX == 999
\* i32::MAX; i32::MIN is -I32_MAX - 1
I32_MAX == 2147483647
I32_MIN == -I32_MAX - 1

\* bound of the model: how far around -999, 0 and 999 the immediates range
MaxDelta == 1
\* bound of the model: register values -MaxReg..MaxReg set up before an instruction
MaxReg == 1
\* bound of the model: the count of run's iterations stops growing here
MaxSteps == 16

(***************************************************************************)
(* Characters and strings (str methods used by the parser)                 *)
(***************************************************************************)
UpperChars == <<"A","B","C","D","E","F","G","H","I","J","K","L","M",
                "N","O","P","Q","R","S","T","U","V","W","X","Y","Z">>
LowerChars == <<"a","b","c","d","e","f","g","h","i","j","k","l","m",
                "n","o","p","q","r","s","t","u","v","w","x","y","z">>
DigitChars == <<"0","1","2","3","4","5","6","7","8","9">>

lower_char(c) ==
    IF \E i \in 1..26 : UpperChars[i] = c
    THEN LowerChars[CHOOSE i \in 1..26 : UpperChars[i] = c]
    ELSE c

to_lowercase(s) == [i \in 1..Len(s) |-> lower_char(s[i])]

is_whitespace(c) == c \in {" ", "\t"}

RECURSIVE trim_start(_)
trim_start(s) ==
    IF s # <<>> /\ is_whitespace(s[1]) THEN trim_start(Tail(s)) ELSE s

RECURSIVE trim_end(_)
trim_end(s) ==
    IF s # <<>> /\ is_whitespace(s[Len(s)])
    THEN trim_end(SubSeq(s, 1, Len(s) - 1))
    ELSE s

trim(s) == trim_end(trim_start(s))

RECURSIVE trim_end_matches(_, _)
trim_end_matches(s, c) ==
    IF s # <<>> /\ s[Len(s)] = c
    THEN trim_end_matches(SubSeq(s, 1, Len(s) - 1), c)
    ELSE s

ends_with(s, c) == s # <<>> /\ s[Len(s)] = c

starts_with(s, c) == s # <<>> /\ s[1] = c

RECURSIVE split_from(_, _, _)
split_from(s, i, cur) ==
    IF i > Len(s)
    THEN (IF cur = <<>> THEN <<>> ELSE <<cur>>)
    ELSE IF is_whitespace(s[i])
         THEN (IF cur = <<>> THEN <<>> ELSE <<cur>>) \o split_from(s, i + 1, <<>>)
         ELSE split_from(s, i + 1, Append(cur, s[i]))

split_whitespace(s) == split_from(s, 1, <<>>)

(***************************************************************************)
(* str::parse::<i32>: optional sign, one or more decimal digits, the value *)
(* within the 32-bit signed range; anything else is Err.                   *)
(***************************************************************************)
is_digit(c) == \E i \in 1..10 : DigitChars[i] = c

digit_val(c) == (CHOOSE i \in 1..10 : DigitChars[i] = c) - 1

ParseErr == [ok |-> FALSE, v |-> 0]

RECURSIVE parse_digits(_, _, _, _)
parse_digits(s, i, r, neg) ==
    IF i > Len(s) THEN [ok |-> TRUE, v |-> r]
    ELSE IF ~is_digit(s[i]) THEN ParseErr
    ELSE LET d == digit_val(s[i]) IN
         IF neg
         THEN IF r < -(I32_MAX \div 10) THEN ParseErr
              ELSE IF r * 10 < I32_MIN + d THEN ParseErr
              ELSE parse_digits(s, i + 1, r * 10 - d, neg)
         ELSE IF r > I32_MAX \div 10 THEN ParseErr
              ELSE IF r * 10 > I32_MAX - d THEN ParseErr
              ELSE parse_digits(s, i + 1, r * 10 + d, neg)

parse_i32(s) ==
    IF s = <<>> THEN ParseErr
    ELSE IF s[1] \in {"+", "-"}
         THEN (IF Len(s) = 1 THEN ParseErr
               ELSE parse_digits(s, 2, 0, s[1] = "-"))
         ELSE parse_digits(s, 1, 0, FALSE)

(***************************************************************************)
(* enum Operand, enum Instruction                                          *)
(***************************************************************************)
NoOperand == [kind |-> "None", v |-> 0, s |-> <<>>]
OpAcc == [kind |-> "Acc", v |-> 0, s |-> <<>>]
OpBak == [kind |-> "Bak", v |-> 0, s |-> <<>>]
OpImm(n) == [kind |-> "Imm", v |-> n, s |-> <<>>]
OpLabel(name) == [kind |-> "Label", v |-> 0, s |-> name]

Instr(op, src, dst, label) == [op |-> op, src |-> src, dst |-> dst, label |-> label]
Mov(src, dst) == Instr("Mov", src, dst, <<>>)
Swp == Instr("Swp", NoOperand, NoOperand, <<>>)
Save == Instr("Save", NoOperand, NoOperand, <<>>)
Add(src) == Instr("Add", src, NoOperand, <<>>)
Jump(op, label) == Instr(op, NoOperand, NoOperand, label)
Ret == Instr("Ret", NoOperand, NoOperand, <<>>)
Label(name) == Instr("Label", NoOperand, NoOperand, name)
Nop == Instr("Nop", NoOperand, NoOperand, <<>>)

JumpOps == {"Jmp", "Jez", "Jnz", "Jgz", "Jlz"}

(***************************************************************************)
(* The parser                                                              *)
(***************************************************************************)
S_acc == <<"a","c","c">>
S_bak == <<"b","a","k">>
S_mov == <<"m","o","v">>
S_swp == <<"s","w","p">>
S_save == <<"s","a","v","e">>
S_add == <<"a","d","d">>
S_jmp == <<"j","m","p">>
S_jez == <<"j","e","z">>
S_jnz == <<"j","n","z">>
S_jgz == <<"j","g","z">>
S_jlz == <<"j","l","z">>
S_ret == <<"r","e","t">>

parse_operand(token) ==
    LET low == to_lowercase(token) IN
    IF low = S_acc THEN OpAcc
    ELSE IF low = S_bak THEN OpBak
    ELSE LET r == parse_i32(token) IN
         IF r.ok THEN OpImm(r.v) ELSE OpLabel(token)

parse_jump(op, tokens) ==
    IF Len(tokens) = 2 THEN Jump(op, tokens[2]) ELSE Nop

\* mutant of parse_line: a label followed by further tokens is an arity mismatch
parse_line_label_alone(line) ==
    LET trimmed == trim(line) IN
    IF trimmed = <<>> \/ starts_with(trimmed, "#") THEN Nop
    ELSE
    LET tokens == split_whitespace(trimmed) IN
    IF tokens = <<>> THEN Nop
    ELSE
    LET m == to_lowercase(tokens[1]) IN
    CASE m = S_mov ->
           IF Len(tokens) = 3
           THEN Mov(parse_operand(trim_end_matches(tokens[2], ",")),
                    parse_operand(tokens[3]))
           ELSE Nop
      [] m = S_swp -> Swp
      [] m = S_save -> Save
      [] m = S_add ->
           IF Len(tokens) = 2 THEN Add(parse_operand(tokens[2])) ELSE Nop
      [] m = S_jmp -> parse_jump("Jmp", tokens)
      [] m = S_jez -> parse_jump("Jez", tokens)
      [] m = S_jnz -> parse_jump("Jnz", tokens)
      [] m = S_jgz -> parse_jump("Jgz", tokens)
      [] m = S_jlz -> parse_jump("Jlz", tokens)
      [] m = S_ret -> Ret
      [] OTHER ->
           IF ends_with(tokens[1], ":") /\ Len(tokens) = 1
           THEN Label(trim_end_matches(tokens[1], ":"))
           ELSE Nop

parse_line(line) ==
    LET trimmed == trim(line) IN
    IF trimmed = <<>> \/ starts_with(trimmed, "#") THEN Nop
    ELSE
    LET tokens == split_whitespace(trimmed) IN
    IF tokens = <<>> THEN Nop
    ELSE
    LET m == to_lowercase(tokens[1]) IN
    CASE m = S_mov ->
           IF Len(tokens) = 3
           THEN Mov(parse_operand(trim_end_matches(tokens[2], ",")),
                    parse_operand(tokens[3]))
           ELSE Nop
      [] m = S_swp -> Swp
      [] m = S_save -> Save
      [] m = S_add ->
           IF Len(tokens) = 2 THEN Add(parse_operand(tokens[2])) ELSE Nop
      [] m = S_jmp -> parse_jump("Jmp", tokens)
      [] m = S_jez -> parse_jump("Jez", tokens)
      [] m = S_jnz -> parse_jump("Jnz", tokens)
      [] m = S_jgz -> parse_jump("Jgz", tokens)
      [] m = S_jlz -> parse_jump("Jlz", tokens)
      [] m = S_ret -> Ret
      [] OTHER ->
           IF ends_with(tokens[1], ":")
           THEN Label(trim_end_matches(tokens[1], ":"))
           ELSE Nop

\* mutant of insert: the entry is the line after the declaration
insert_next_line(map, name, idx) == (name :> idx + 1) @@ map

\* mutant of insert: an entry that exists is kept
insert_keep_first(map, name, idx) ==
    IF name \in DOMAIN map THEN map ELSE (name :> idx) @@ map

\* labels.insert(label, idx): a later insert of the same name replaces the entry
insert(map, name, idx) == (name :> idx) @@ map

EmptyMap == [n \in {} |-> 0]

RECURSIVE load_from(_, _, _, _)
load_from(ls, idx, prog, labs) ==
    IF idx >= Len(ls) THEN [program |-> prog, labels |-> labs]
    ELSE LET instr == parse_line(ls[idx + 1]) IN
         load_from(ls, idx + 1, Append(prog, instr),
                   IF instr.op = "Label" THEN insert(labs, instr.label, idx)
                   ELSE labs)

load_program(ls) == load_from(ls, 0, <<>>, EmptyMap)


(***************************************************************************)
(* The execution engine                                                    *)
(***************************************************************************)
\* mutant of clamp_acc: the upper limit is not enforced
clamp_acc_lower_only(a) ==
    IF a < -ACC_MAX THEN -ACC_MAX ELSE a

\* clamp_acc, as a function of the value held in self.acc
clamp_acc(a) ==
    IF a > ACC_MAX THEN ACC_MAX
    ELSE IF a < -ACC_MAX THEN -ACC_MAX
    ELSE a

\* i32 `+=`: whether the mathematical sum leaves the 32-bit range
add_overflows(a, b) ==
    \/ b > 0 /\ a > I32_MAX - b
    \/ b < 0 /\ a < I32_MIN - b

\* the two's-complement result of a 32-bit addition (overflow checks off)
wrapping_add(a, b) ==
    IF b > 0 /\ a > I32_MAX - b THEN (a + I32_MIN) + (b + I32_MIN)
    ELSE IF b < 0 /\ a < I32_MIN - b THEN (a + I32_MAX + 1) + (b + I32_MAX + 1)
    ELSE a + b

ReadOk(v) == [ok |-> TRUE, v |-> v, msg |-> ""]
ReadErr(m) == [ok |-> FALSE, v |-> 0, msg |-> m]

read_value(src, a, b) ==
    CASE src.kind = "Acc" -> ReadOk(a)
      [] src.kind = "Bak" -> ReadOk(b)
      [] src.kind = "Imm" -> ReadOk(src.v)
      [] OTHER -> ReadErr("Cannot use label as value")

WriteOk(a) == [ok |-> TRUE, acc |-> a, msg |-> ""]
WriteErr(a, m) == [ok |-> FALSE, acc |-> a, msg |-> m]

\* mutant of write_value: bak is accepted as a destination like acc
write_value_bak_writable(dst, value, a) ==
    CASE dst.kind \in {"Acc", "Bak"} ->
           WriteOk(IF value > ACC_MAX THEN ACC_MAX
                   ELSE IF value < -ACC_MAX THEN -ACC_MAX ELSE value)
      [] dst.kind = "Imm" -> WriteErr(a, "Cannot write to immediate value")
      [] OTHER -> WriteErr(a, "Cannot write to label")

\* mutant of write_value: the value is stored without clamping
write_value_unclamped(dst, value, a) ==
    CASE dst.kind = "Acc" -> WriteOk(value)
      [] dst.kind = "Bak" -> WriteErr(a, "Cannot write directly to bak")
      [] dst.kind = "Imm" -> WriteErr(a, "Cannot write to immediate value")
      [] OTHER -> WriteErr(a, "Cannot write to label")

write_value(dst, value, a) ==
    CASE dst.kind = "Acc" -> WriteOk(clamp_acc(value))
      [] dst.kind = "Bak" -> WriteErr(a, "Cannot write directly to bak")
      [] dst.kind = "Imm" -> WriteErr(a, "Cannot write to immediate value")
      [] OTHER -> WriteErr(a, "Cannot write to label")

\* outcomes of one call of execute: Ok(()), Err(msg), or a panic of the process
Ok(a, b, p) == [res |-> "Ok", acc |-> a, bak |-> b, pc |-> p, msg |-> ""]
Fail(a, b, p, m) == [res |-> "Err", acc |-> a, bak |-> b, pc |-> p, msg |-> m]
Panic(a, b, p) == [res |-> "Panic", acc |-> a, bak |-> b, pc |-> p, msg |-> "attempt to add with overflow"]

\* mutant of exec_mov: a Mov into bak stores the value in bak
exec_mov_writes_bak(instr, a, b, p) ==
    LET r == read_value(instr.src, a, b) IN
    IF ~r.ok THEN {Fail(a, b, p, r.msg)}
    ELSE IF instr.dst.kind = "Bak" THEN {Ok(a, r.v, p + 1)}
    ELSE LET w == write_value(instr.dst, r.v, a) IN
         IF ~w.ok THEN {Fail(w.acc, b, p, w.msg)}
         ELSE {Ok(w.acc, b, p + 1)}

exec_mov(instr, a, b, p) ==
    LET r == read_value(instr.src, a, b) IN
    IF ~r.ok THEN {Fail(a, b, p, r.msg)}
    ELSE LET w == write_value(instr.dst, r.v, a) IN
         IF ~w.ok THEN {Fail(w.acc, b, p, w.msg)}
         ELSE {Ok(w.acc, b, p + 1)}

\* mutant of exec_swp: acc is overwritten before it is copied to bak
exec_swp_no_temp(a, b, p) == {Ok(b, b, p + 1)}

exec_swp(a, b, p) == {Ok(b, a, p + 1)}

exec_save(a, b, p) == {Ok(a, a, p + 1)}

\* `self.acc += value` panics when overflow checks are on (debug profile) and
\* wraps when they are off (release profile): both outcomes are produced.
exec_add(instr, a, b, p) ==
    LET r == read_value(instr.src, a, b) IN
    IF ~r.ok THEN {Fail(a, b, p, r.msg)}
    ELSE IF add_overflows(a, r.v)
         THEN {Panic(a, b, p), Ok(clamp_acc(wrapping_add(a, r.v)), b, p + 1)}
         ELSE {Ok(clamp_acc(a + r.v), b, p + 1)}

\* mutant of jump_guard: Jgz also jumps on zero
jump_guard_nonneg(op, a) ==
    CASE op = "Jmp" -> TRUE
      [] op = "Jez" -> a = 0
      [] op = "Jnz" -> a # 0
      [] op = "Jgz" -> a >= 0
      [] op = "Jlz" -> a < 0

\* mutant of jump_guard: Jmp is taken only when acc is not zero
jump_guard_jmp_conditional(op, a) ==
    CASE op = "Jmp" -> a # 0
      [] op = "Jez" -> a = 0
      [] op = "Jnz" -> a # 0
      [] op = "Jgz" -> a > 0
      [] op = "Jlz" -> a < 0

\* the guard of each jump instruction on the accumulator
jump_guard(op, a) ==
    CASE op = "Jmp" -> TRUE
      [] op = "Jez" -> a = 0
      [] op = "Jnz" -> a # 0
      [] op = "Jgz" -> a > 0
      [] op = "Jlz" -> a < 0

\* mutant of exec_jump: the label is looked up before the guard is tested
exec_jump_eager_lookup(instr, a, b, p, labs) ==
    IF instr.label \notin DOMAIN labs
    THEN {Fail(a, b, p, "Unknown label")}
    ELSE IF jump_guard(instr.op, a)
         THEN {Ok(a, b, labs[instr.label])}
         ELSE {Ok(a, b, p + 1)}

exec_jump(instr, a, b, p, labs) ==
    IF jump_guard(instr.op, a)
    THEN IF instr.label \in DOMAIN labs
         THEN {Ok(a, b, labs[instr.label])}
         ELSE {Fail(a, b, p, "Unknown label")}
    ELSE {Ok(a, b, p + 1)}

\* mutant of exec_ret: pc is set to the last line, not past it
exec_ret_last_line(a, b, len) == {Ok(a, b, len - 1)}

exec_ret(a, b, len) == {Ok(a, b, len)}

\* mutant of exec_skip: pc is left where it is
exec_skip_stall(a, b, p) == {Ok(a, b, p)}

exec_skip(a, b, p) == {Ok(a, b, p + 1)}

(***************************************************************************)
(* Input files: the lines main reads before load_program.                  *)
(***************************************************************************)
RECURSIVE digits(_)
digits(n) ==
    IF n < 10 THEN <<DigitChars[n + 1]>>
    ELSE Append(digits(n \div 10), DigitChars[(n % 10) + 1])

\* the decimal text of an integer, as a program's author writes an immediate
decimal(n) ==
    IF n = I32_MIN THEN <<"-">> \o digits(I32_MAX \div 10) \o <<"8">>
    ELSE IF n < 0 THEN <<"-">> \o digits(-n)
    ELSE digits(n)

RECURSIVE join(_)
join(toks) ==
    IF Len(toks) = 1 THEN toks[1]
    ELSE toks[1] \o <<" ">> \o join(Tail(toks))

N_loop == <<"l","o","o","p">>
N_is_zero == <<"i","s","_","z","e","r","o">>
N_tgt == <<"t","g","t">>
N_none == <<"n","o","n","e">>
N_dup == <<"d","u","p">>
N_L == <<"L">>
N_x == <<"x">>

decl(name) == name \o <<":">>

line_mov(src, dst) == join(<<S_mov, src, dst>>)
line_add(src) == join(<<S_add, src>>)
line_jump(mn, name) == join(<<mn, name>>)

\* immediates around the clamp limits and zero, and at the ends of the i32 range
Vals ==
    {c + d : c \in {-ACC_MAX, 0, ACC_MAX}, d \in -MaxDelta..MaxDelta}
        \cup {I32_MAX, -I32_MAX, I32_MIN}

\* register values set up by a program's first three lines
RegVals == (-MaxReg..MaxReg) \cup {-ACC_MAX, ACC_MAX}

\* mov a acc / save / mov b acc: leaves acc = b and bak = a
Setup(a, b) ==
    << line_mov(decimal(a), S_acc), S_save, line_mov(decimal(b), S_acc) >>

JumpMnemonics == {S_jmp, S_jez, S_jnz, S_jgz, S_jlz}

\* what follows the set-up: one instruction (or a few) under test
Tails ==
    { << S_swp, S_swp >>,
      << join(<<S_swp, N_x>>), line_add(decimal(1)) >>,
      << join(<< <<"S","W","P">>, N_x, N_x>>) >>,
      << join(<< <<"S","a","v","e">>, N_x>>), line_add(decimal(1)) >>,
      << join(<< <<"R","E","T">>, N_x>>), line_add(decimal(1)) >>,
      << S_ret, line_add(decimal(1)) >>,
      << <<"S","w","P">>, <<" ">> \o S_save \o <<"\t">> >>,
      << line_mov(S_acc, S_bak) >>,
      << line_mov(decimal(7) \o <<",">>, <<"B","A","K">>) >>,
      << line_mov(N_x, S_acc) >>,
      << line_mov(N_x, S_bak) >>,
      << line_mov(decimal(5), decimal(7)) >>,
      << line_mov(decimal(5), N_x) >>,
      << line_mov(S_bak \o <<",">>, <<"A","C","C">>), line_add(S_acc) >>,
      << line_mov(<<"3","0","0","0","0","0","0","0","0","0">>, S_acc) >>,
      << line_mov(<<"+","5">>, S_acc), line_mov(<<"-">>, S_acc) >>,
      << line_add(N_x) >>,
      << line_add(S_acc), line_add(S_bak) >>,
      << line_add(<<"B","a","k">>), <<"A","D","D"," "," ","a","c","c">> >>,
      << S_mov, join(<<S_mov, decimal(1)>>), join(<<S_mov, decimal(1), S_acc, N_x>>),
         S_add, join(<<S_add, decimal(1), decimal(2)>>), S_jmp,
         join(<<S_jmp, N_tgt, N_x>>), join(<<S_jez, N_tgt, N_x>>), S_jnz >>,
      << <<>>, <<" ","\t">>, <<"#"," ","a","d","d"," ","1">>,
         join(<< <<"f","o","o">>, decimal(1)>>), <<" ","#">> >>,
      << line_jump(S_jmp, N_dup), decl(N_dup), line_add(decimal(1)),
         decl(N_dup), line_add(decimal(2)) >>,
      << decl(N_L), line_jump(S_jmp, N_L) >>,
      << join(<<decl(N_x), S_add, decimal(5)>>), decl(N_tgt) \o <<":">>,
         line_jump(S_jmp, N_tgt) \o <<":">> >>,
      << line_jump(S_jmp, <<"T","g","t">>), decl(N_tgt) >>,
      << line_jump(S_jmp, N_tgt), line_jump(S_jmp, N_none), decl(N_tgt) >>,
      << join(<< <<"#">> \o decl(N_x), S_add, decimal(5)>>), line_jump(S_jez, N_x) >> }
    \cup { << line_add(decimal(v)) >> : v \in Vals }
    \cup { << line_jump(mn, N_tgt), line_add(decimal(1)), decl(N_tgt), line_add(decimal(2)) >> :
             mn \in JumpMnemonics }
    \cup { << line_jump(mn, N_tgt), decl(N_tgt) >> : mn \in JumpMnemonics }
    \cup { << line_jump(mn, N_none), line_add(decimal(1)) >> : mn \in JumpMnemonics }

\* spec.md, end-to-end scenario 1
Scenario1 ==
    << line_mov(decimal(5), S_acc),
       join(<<decl(N_loop), S_add, decimal(-1)>>),
       line_jump(S_jnz, N_loop),
       S_ret >>

\* spec.md, end-to-end scenario 2
Scenario2 ==
    << line_mov(decimal(0), S_acc),
       line_jump(S_jez, N_is_zero),
       line_mov(decimal(1), S_acc),
       S_ret,
       join(<<decl(N_is_zero), S_mov, decimal(42), S_acc>>),
       S_ret >>

\* spec.md, end-to-end scenarios 3 and 4, for every immediate of Vals
MovProgram(v) == << line_mov(decimal(v), S_acc) >>

\* mov a acc / add b / add c: sequences of adds
AddProgram(a, b, c) ==
    << line_mov(decimal(a), S_acc), line_add(decimal(b)), line_add(decimal(c)) >>

\* a label line followed by a jump to it (an endless loop) alone in a file
LoopProgram == << decl(N_L), line_jump(S_jmp, N_L) >>

Inputs ==
    { Setup(a, b) \o t : a \in RegVals, b \in RegVals, t \in Tails }
        \cup { MovProgram(v) : v \in Vals }
        \cup { AddProgram(a, b, c) : a \in {-ACC_MAX, ACC_MAX}, b \in Vals, c \in Vals }
        \cup { Scenario1, Scenario2, LoopProgram, <<>> }

(***************************************************************************)
(* main: Emulator::new, load_program, run, print_state                     *)
(***************************************************************************)
Init ==
    /\ lines \in Inputs
    /\ program = <<>>
    /\ labels = EmptyMap
    /\ acc = 0
    /\ bak = 0
    /\ pc = 0
    /\ phase = "new"
    /\ err_line = 0
    /\ err_msg = ""
    /\ steps = 0

\* emu.load_program(lines)
Load ==
    /\ phase = "new"
    /\ LET l == load_program(lines) IN
         /\ program' = l.program
         /\ labels' = l.labels
    /\ pc' = 0
    /\ phase' = "run"
    /\ UNCHANGED <<lines, acc, bak, err_line, err_msg, steps>>

\* the instruction run fetches: &self.program[self.pc]
cur == program[pc + 1]

Running == phase = "run" /\ pc < Len(program)

\* mutant of run_apply: the zero-based index is reported as the line
run_apply_zero_based(r) ==
    /\ acc' = r.acc
    /\ bak' = r.bak
    /\ pc' = r.pc
    /\ phase' = CASE r.res = "Ok" -> "run"
                  [] r.res = "Err" -> "exit"
                  [] OTHER -> "panic"
    /\ err_line' = IF r.res = "Err" THEN r.pc ELSE 0
    /\ err_msg' = IF r.res = "Ok" THEN "" ELSE r.msg
    /\ steps' = IF steps < MaxSteps THEN steps + 1 ELSE steps

\* what run does with an outcome of execute: go on, or report the line and exit(1)
run_apply(r) ==
    /\ acc' = r.acc
    /\ bak' = r.bak
    /\ pc' = r.pc
    /\ phase' = CASE r.res = "Ok" -> "run"
                  [] r.res = "Err" -> "exit"
                  [] OTHER -> "panic"
    /\ err_line' = IF r.res = "Err" THEN r.pc + 1 ELSE 0
    /\ err_msg' = IF r.res = "Ok" THEN "" ELSE r.msg
    /\ steps' = IF steps < MaxSteps THEN steps + 1 ELSE steps

\* one iteration of run's loop, by the arm of execute's match that is taken
StepMov ==
    /\ Running
    /\ cur.op = "Mov"
    /\ \E r \in exec_mov(cur, acc, bak, pc) : run_apply(r)
    /\ UNCHANGED <<lines, program, labels>>

StepSwp ==
    /\ Running
    /\ cur.op = "Swp"
    /\ \E r \in exec_swp(acc, bak, pc) : run_apply(r)
    /\ UNCHANGED <<lines, program, labels>>

StepSave ==
    /\ Running
    /\ cur.op = "Save"
    /\ \E r \in exec_save(acc, bak, pc) : run_apply(r)
    /\ UNCHANGED <<lines, program, labels>>

StepAdd ==
    /\ Running
    /\ cur.op = "Add"
    /\ \E r \in exec_add(cur, acc, bak, pc) : run_apply(r)
    /\ UNCHANGED <<lines, program, labels>>

StepJmp ==
    /\ Running
    /\ cur.op = "Jmp"
    /\ \E r \in exec_jump(cur, acc, bak, pc, labels) : run_apply(r)
    /\ UNCHANGED <<lines, program, labels>>

StepJez ==
    /\ Running
    /\ cur.op = "Jez"
    /\ \E r \in exec_jump(cur, acc, bak, pc, labels) : run_apply(r)
    /\ UNCHANGED <<lines, program, labels>>

StepJnz ==
    /\ Running
    /\ cur.op = "Jnz"
    /\ \E r \in exec_jump(cur, acc, bak, pc, labels) : run_apply(r)
    /\ UNCHANGED <<lines, program, labels>>

StepJgz ==
    /\ Running
    /\ cur.op = "Jgz"
    /\ \E r \in exec_jump(cur, acc, bak, pc, labels) : run_apply(r)
    /\ UNCHANGED <<lines, program, labels>>

StepJlz ==
    /\ Running
    /\ cur.op = "Jlz"
    /\ \E r \in exec_jump(cur, acc, bak, pc, labels) : run_apply(r)
    /\ UNCHANGED <<lines, program, labels>>

StepRet ==
    /\ Running
    /\ cur.op = "Ret"
    /\ \E r \in exec_ret(acc, bak, Len(program)) : run_apply(r)
    /\ UNCHANGED <<lines, program, labels>>

StepLabel ==
    /\ Running
    /\ cur.op = "Label"
    /\ \E r \in exec_skip(acc, bak, pc) : run_apply(r)
    /\ UNCHANGED <<lines, program, labels>>

StepNop ==
    /\ Running
    /\ cur.op = "Nop"
    /\ \E r \in exec_skip(acc, bak, pc) : run_apply(r)
    /\ UNCHANGED <<lines, program, labels>>

\* run's loop ends (pc >= prog_len); main prints the state and returns
Finish ==
    /\ phase = "run"
    /\ pc >= Len(program)
    /\ phase' = "done"
    /\ UNCHANGED <<lines, program, labels, acc, bak, pc, err_line, err_msg, steps>>

Next ==
    \/ Load
    \/ StepMov
    \/ StepSwp
    \/ StepSave
    \/ StepAdd
    \/ StepJmp
    \/ StepJez
    \/ StepJnz
    \/ StepJgz
    \/ StepJlz
    \/ StepRet
    \/ StepLabel
    \/ StepNop
    \/ Finish

Spec == Init /\ [][Next]_vars

\* the iterations of run's loop and its exit
RunLoop ==
    \/ StepMov \/ StepSwp \/ StepSave \/ StepAdd
    \/ StepJmp \/ StepJez \/ StepJnz \/ StepJgz \/ StepJlz
    \/ StepRet \/ StepLabel \/ StepNop
    \/ Finish

\* run is a tight loop with nothing to wait for: once the program is loaded,
\* an iteration that can be taken is taken
FairSpec == Spec /\ WF_vars(RunLoop)

TypeOK ==
    /\ phase \in {"new", "run", "done", "exit", "panic"}
    /\ acc \in Int /\ bak \in Int /\ pc \in Nat /\ steps \in 0..MaxSteps

(***************************************************************************)
(* Properties                                                              *)
(***************************************************************************)
\* the zero-based indices of the lines that declare the label `name`
DeclLines(name) ==
    { i - 1 : i \in { j \in 1..Len(program) :
                        program[j].op = "Label" /\ program[j].label = name } }

\* the set-up followed by a jump over `add 1` to the label line `tgt:`
JumpOver(a, b, mn) ==
    Setup(a, b) \o << line_jump(mn, N_tgt), line_add(decimal(1)),
                      decl(N_tgt), line_add(decimal(2)) >>

\* C1: in every reachable state the accumulator lies in [-999, 999], whatever
\* the program and however many steps have run (after every Add and every Mov
\* into acc in particular).
C1_AccInRange == acc >= -999 /\ acc <= 999

\* an Add of i32::MAX onto acc = 999 has run (wrapping build) and acc was clamped
C1_Witness ==
    /\ lines = AddProgram(999, 1, I32_MAX)
    /\ phase = "run"
    /\ pc = 3
    /\ acc = -999

\* C2: the program `mov 5 acc` / `loop: add -1` / `jnz loop` / `ret` eventually
\* reaches the halted state with acc = 0 and bak = 0.
C2_Scenario1Halts ==
    (lines = Scenario1 /\ phase = "run") ~> (phase = "done" /\ acc = 0 /\ bak = 0)

\* C3: the program `mov 0 acc` / `jez is_zero` / `mov 1 acc` / `ret` /
\* `is_zero: mov 42 acc` / `ret` halts with acc = 42.
C3_Scenario2Result ==
    (lines = Scenario2 /\ phase = "done") => acc = 42

\* C4: a Mov whose destination is bak, and a Mov or Add whose source is a label
\* reference, ends in an error and leaves acc and bak as they were.
C4_ErrorKeepsRegisters ==
    [][ ( /\ Running
          /\ \/ cur.op = "Mov" /\ cur.dst.kind = "Bak"
             \/ cur.op \in {"Mov", "Add"} /\ cur.src.kind = "Label" )
        => (phase' = "exit" /\ acc' = acc /\ bak' = bak) ]_vars

\* `mov acc bak` with acc = 999, bak = -999 has failed
C4_Witness ==
    /\ lines = Setup(-999, 999) \o << line_mov(S_acc, S_bak) >>
    /\ phase = "exit"
    /\ err_msg = "Cannot write directly to bak"
    /\ acc = 999
    /\ bak = -999

\* C5: Jmp to a declared label sets pc to the zero-based index of a line that
\* declares the label (no extra +1), whatever acc is, and leaves acc and bak
\* unchanged.
C5_JmpTarget ==
    [][ (Running /\ cur.op = "Jmp" /\ DeclLines(cur.label) # {})
        => /\ phase' = "run"
           /\ pc' \in DeclLines(cur.label)
           /\ acc' = acc
           /\ bak' = bak ]_vars

\* `jmp tgt` has been taken with acc = -1: pc is the index of `tgt:`
C5_Witness ==
    /\ lines = JumpOver(1, -1, S_jmp)
    /\ phase = "run"
    /\ pc = 5
    /\ acc = -1
    /\ bak = 1

\* C6: a conditional jump to a declared label goes to the label's line when
\* its guard holds (Jez: acc = 0, Jnz: acc # 0, Jgz: acc > 0, Jlz: acc < 0) and
\* to pc + 1 when it does not; nothing else changes.
C6_ConditionalJumps ==
    [][ (Running /\ cur.op \in {"Jez", "Jnz", "Jgz", "Jlz"}
                 /\ DeclLines(cur.label) # {})
        => LET guard == \/ cur.op = "Jez" /\ acc = 0
                        \/ cur.op = "Jnz" /\ acc # 0
                        \/ cur.op = "Jgz" /\ acc > 0
                        \/ cur.op = "Jlz" /\ acc < 0
           IN /\ guard => pc' \in DeclLines(cur.label)
              /\ ~guard => pc' = pc + 1
              /\ phase' = "run"
              /\ acc' = acc
              /\ bak' = bak
              /\ UNCHANGED <<lines, program, labels, err_line, err_msg>> ]_vars

\* `jgz tgt` has been taken with acc = 1, skipping `add 1`
C6_Witness ==
    /\ lines = JumpOver(0, 1, S_jgz)
    /\ phase = "run"
    /\ pc = 5
    /\ acc = 1

\* C7: the one-line program `mov v acc` never fails and halts after its single
\* step with acc = v for -999 <= v <= 999, 999 for v > 999, -999 for v < -999,
\* and bak = 0.
C7_MovImmediate ==
    \A v \in Vals :
        lines = MovProgram(v) =>
            LET c == IF v > 999 THEN 999 ELSE IF v < -999 THEN -999 ELSE v IN
            /\ phase \in {"new", "run", "done"}
            /\ bak = 0
            /\ pc \in {0, 1}
            /\ (pc = 1 => acc = c)
            /\ (phase = "done" => pc = 1)

\* `mov 1000 acc` has halted with acc = 999
C7_Witness ==
    /\ lines = MovProgram(1000)
    /\ phase = "done"
    /\ acc = 999
    /\ bak = 0

\* C8: one Swp turns (acc, bak) into (bak, acc) and advances pc by 1; two Swp in
\* succession give back the (acc, bak) they started from.
C8_SwapSelfInverse ==
    /\ [][ (Running /\ cur.op = "Swp")
           => (acc' = bak /\ bak' = acc /\ pc' = pc + 1 /\ phase' = "run") ]_vars
    /\ [](\A a \in RegVals, b \in RegVals :
            (lines = Setup(a, b) \o << S_swp, S_swp >> /\ phase # "new") =>
                /\ pc = 3 => (acc = b /\ bak = a)
                /\ pc = 4 => (acc = a /\ bak = b)
                /\ pc = 5 => (acc = b /\ bak = a))

\* two Swp have run on acc = -1, bak = 1
C8_Witness ==
    /\ lines = Setup(1, -1) \o << S_swp, S_swp >>
    /\ phase = "run"
    /\ pc = 5
    /\ acc = -1
    /\ bak = 1

\* C9: once a step has produced an error nothing further is executed, and the
\* line reported is the failing instruction's zero-based index plus 1.
C9_ErrorStopsRun ==
    [][ /\ phase = "exit" => FALSE
        /\ (Running /\ phase' = "exit")
               => (err_line' = pc + 1 /\ pc' = pc /\ acc' = acc /\ bak' = bak) ]_vars

\* `jmp none` on the fourth line has failed and line 4 is reported
C9_Witness ==
    /\ lines = Setup(0, 1) \o << line_jump(S_jmp, N_none), line_add(decimal(1)) >>
    /\ phase = "exit"
    /\ err_msg = "Unknown label"
    /\ err_line = 4
    /\ pc = 3

\* C10: a line whose first token is swp, save or ret (in any letter case)
\* followed by further tokens decodes to NoOp.
C10_ExtraTokensDecodeToNop ==
    phase # "new" =>
        \A i \in 1..Len(lines) :
            LET t == split_whitespace(lines[i]) IN
            (Len(t) > 1 /\ to_lowercase(t[1]) \in {S_swp, S_save, S_ret})
                => program[i] = Nop

\* C11: bak lies in [-999, 999] in every reachable state and changes only in
\* a step that executes Save (bak becomes acc) or Swp; every other step,
\* a successful or failing Mov included, leaves it as it was.
C11_BakFrame ==
    /\ [](bak >= -999 /\ bak <= 999)
    /\ [][ /\ bak' # bak => (Running /\ cur.op \in {"Save", "Swp"})
           /\ (Running /\ cur.op = "Save") => bak' = acc
           /\ (Running /\ cur.op = "Mov") => bak' = bak ]_vars

\* from acc = 999, bak = -999: Swp, then Save has copied acc = -999 over bak = 999
C11_Witness ==
    /\ lines = Setup(-999, 999) \o << <<"S","w","P">>, <<" ">> \o S_save \o <<"\t">> >>
    /\ phase = "run"
    /\ pc = 5
    /\ steps = 5
    /\ acc = -999
    /\ bak = -999

\* C12: the program `L:` / `jmp L` never reaches the halted state: pc stays
\* below the program length, and acc and bak keep their values.
C12_LoopNeverHalts ==
    /\ lines = LoopProgram =>
          /\ phase \in {"new", "run"}
          /\ phase = "run" => pc < Len(program)
          /\ acc = 0
          /\ bak = 0
    /\ \A a \in RegVals, b \in RegVals :
          (lines = Setup(a, b) \o LoopProgram /\ steps >= 3) =>
              /\ phase = "run"
              /\ pc \in {3, 4}
              /\ acc = b
              /\ bak = a

\* the loop has gone round until the count of iterations stopped growing
C12_Witness ==
    /\ lines = LoopProgram
    /\ phase = "run"
    /\ steps = MaxSteps
    /\ pc = 0

\* C13: Ret, wherever it stands, sets pc to the program length; the loop then
\* ends without executing anything more, and the run terminates with acc and
\* bak as they were when Ret was reached.
C13_RetHalts ==
    /\ [][ (Running /\ cur.op = "Ret")
           => (pc' = Len(program) /\ acc' = acc /\ bak' = bak /\ phase' = "run") ]_vars
    /\ [][ (phase = "run" /\ pc >= Len(program))
           => (phase' = "done" /\ acc' = acc /\ bak' = bak /\ steps' = steps) ]_vars
    /\ (Running /\ cur.op = "Ret") ~> (phase = "done")

\* `ret` on the fourth line has halted the run before `add 1` on the fifth
C13_Witness ==
    /\ lines = Setup(1, -1) \o << S_ret, line_add(decimal(1)) >>
    /\ phase = "done"
    /\ pc = 5
    /\ steps = 4
    /\ acc = -1
    /\ bak = 1

\* C14: for acc in [-999, 999] and every value the source can hold (acc, bak or
\* a 32-bit immediate), Add sets acc to the mathematical sum acc + value clamped
\* into [-999, 999], and advances pc by 1.
C14_AddClampsTheSum ==
    [][ (Running /\ cur.op = "Add" /\ cur.src.kind \in {"Acc", "Bak", "Imm"})
        => LET v == CASE cur.src.kind = "Acc" -> acc
                      [] cur.src.kind = "Bak" -> bak
                      [] OTHER -> cur.src.v
           IN /\ acc' = IF v > 999 - acc THEN 999
                        ELSE IF v < -999 - acc THEN -999
                        ELSE acc + v
              /\ pc' = pc + 1 ]_vars

\* the set-up followed by a jump over a jump to a label that is not declared
SkippedBadJump(a, b) ==
    Setup(a, b) \o << line_jump(S_jmp, N_tgt), line_jump(S_jmp, N_none), decl(N_tgt) >>

\* C15: a jump to a label that no line declares fails with "Unknown label",
\* acc, bak and pc unchanged, when it is taken (Jmp, or a conditional jump whose
\* guard holds); when its guard is false it only advances pc by 1; and a
\* program whose only such jump is never executed runs to completion.
C15_LabelCheckedWhenTaken ==
    /\ [][ (Running /\ cur.op \in JumpOps /\ DeclLines(cur.label) = {})
           => LET guard == \/ cur.op = "Jmp"
                           \/ cur.op = "Jez" /\ acc = 0
                           \/ cur.op = "Jnz" /\ acc # 0
                           \/ cur.op = "Jgz" /\ acc > 0
                           \/ cur.op = "Jlz" /\ acc < 0
              IN /\ acc' = acc
                 /\ bak' = bak
                 /\ guard => (phase' = "exit" /\ err_msg' = "Unknown label" /\ pc' = pc)
                 /\ ~guard => (phase' = "run" /\ pc' = pc + 1) ]_vars
    /\ []((\E a \in RegVals, b \in RegVals : lines = SkippedBadJump(a, b))
              => phase \in {"new", "run", "done"})
    /\ ((\E a \in RegVals, b \in RegVals : lines = SkippedBadJump(a, b)) /\ phase = "run")
           ~> (phase = "done")

\* `jez none` with acc = 1 fell through to `add 1` and the run completed
C15_Witness ==
    /\ lines = Setup(0, 1) \o << line_jump(S_jez, N_none), line_add(decimal(1)) >>
    /\ phase = "done"
    /\ steps = 5
    /\ acc = 2

\* C16 as stated: every line whose first token ends with `:` decodes to a
\* label marker.
C16_ColonLineIsLabel ==
    phase # "new" =>
        \A i \in 1..Len(lines) :
            LET t == split_whitespace(lines[i]) IN
            (t # <<>> /\ ends_with(t[1], ":")) => program[i].op = "Label"

\* C16, amended: a line that is not a comment and whose first token ends with
\* `:` decodes to the label marker of that token, whatever follows it; reaching
\* a line whose first token ends with `:` only advances pc by 1 and changes no
\* register, so an instruction written after the label is never executed.
C16_LabelLineIgnoresRest ==
    /\ [](phase # "new" =>
            \A i \in 1..Len(lines) :
                LET t == split_whitespace(lines[i]) IN
                (t # <<>> /\ ends_with(t[1], ":") /\ ~starts_with(t[1], "#"))
                    => program[i] = Label(trim_end_matches(t[1], ":")))
    /\ [][ ( /\ Running
             /\ LET t == split_whitespace(lines[pc + 1]) IN
                t # <<>> /\ ends_with(t[1], ":") )
           => (pc' = pc + 1 /\ acc' = acc /\ bak' = bak /\ phase' = "run") ]_vars

\* the line `x: add 5` has been passed and acc is still 1
C16_Witness ==
    /\ lines = Setup(0, 1) \o << join(<<decl(N_x), S_add, decimal(5)>>),
                                 decl(N_tgt) \o <<":">>,
                                 line_jump(S_jmp, N_tgt) \o <<":">> >>
    /\ phase = "run"
    /\ pc = 4
    /\ steps = 4
    /\ acc = 1
    /\ bak = 0

\* C17: in every reachable state 0 <= pc <= length of the program and every
\* entry of the label table is an index below the length; a step that is
\* neither a jump nor Ret and does not fail adds exactly 1 to pc, and Ret sets
\* pc to the length: no instruction is fetched outside the program.
C17_PcInProgram ==
    /\ [](/\ pc >= 0
          /\ pc <= Len(program)
          /\ \A n \in DOMAIN labels : labels[n] >= 0 /\ labels[n] < Len(program))
    /\ [][ (Running /\ cur.op \notin (JumpOps \cup {"Ret"}) /\ phase' = "run")
           => pc' = pc + 1 ]_vars
    /\ [][ (Running /\ cur.op = "Ret") => pc' = Len(program) ]_vars

\* `jmp tgt` has gone to `tgt:` on the last line of a five-line program
C17_Witness ==
    /\ lines = Setup(0, 1) \o << line_jump(S_jmp, N_tgt), decl(N_tgt) >>
    /\ phase = "run"
    /\ labels[N_tgt] = Len(program) - 1
    /\ pc = 4
    /\ steps = 4

\* the instruction about to run is a jump whose guard holds
TakenJump ==
    /\ Running
    /\ \/ cur.op = "Jmp"
       \/ cur.op = "Jez" /\ acc = 0
       \/ cur.op = "Jnz" /\ acc # 0
       \/ cur.op = "Jgz" /\ acc > 0
       \/ cur.op = "Jlz" /\ acc < 0

\* every jump of the program names a label that is declared, and declared only
\* on lines after the jump
ForwardOnly ==
    \A i \in 1..Len(program) :
        program[i].op \in JumpOps =>
            /\ DeclLines(program[i].label) # {}
            /\ \A d \in DeclLines(program[i].label) : d > i - 1

\* C18: a step that is not a taken jump (and does not end the run) strictly
\* increases pc; a program whose jumps all go to labels declared on later
\* lines, or that has no jump, executes at most as many steps as it has lines
\* and terminates, by halting or by an error.
C18_ForwardJumpsTerminate ==
    /\ [][ (Running /\ ~TakenJump /\ phase' = "run") => pc' > pc ]_vars
    /\ []((phase # "new" /\ ForwardOnly) => steps <= Len(program))
    /\ (phase = "run" /\ ForwardOnly) ~> (phase \in {"done", "exit", "panic"})

\* a seven-line program with one forward jump has halted after six steps
C18_Witness ==
    /\ lines = JumpOver(1, -1, S_jmp)
    /\ ForwardOnly
    /\ phase = "done"
    /\ steps = 6
    /\ acc = 1

\* the greatest element of a non-empty set of numbers
Greatest(S) == CHOOSE m \in S : \A x \in S : x <= m

\* C19: when a label name is declared on several lines, the label table holds
\* the index of the last of them, every taken jump to the name goes there, and
\* the declaring lines themselves only advance pc by 1.
C19_LastDeclarationWins ==
    /\ [](phase # "new" =>
            /\ \A i \in 1..Len(program) :
                  program[i].op = "Label" => program[i].label \in DOMAIN labels
            /\ \A n \in DOMAIN labels :
                  DeclLines(n) # {} /\ labels[n] = Greatest(DeclLines(n)))
    /\ [][ (TakenJump /\ DeclLines(cur.label) # {})
           => (pc' = Greatest(DeclLines(cur.label)) /\ phase' = "run") ]_vars
    /\ [][ (Running /\ cur.op = "Label")
           => (pc' = pc + 1 /\ acc' = acc /\ bak' = bak /\ phase' = "run") ]_vars

\* `jmp dup` has gone to the second `dup:` line, past the first and `add 1`
C19_Witness ==
    /\ lines = Setup(0, 1) \o << line_jump(S_jmp, N_dup), decl(N_dup), line_add(decimal(1)),
                                 decl(N_dup), line_add(decimal(2)) >>
    /\ Cardinality(DeclLines(N_dup)) = 2
    /\ phase = "run"
    /\ pc = 6
    /\ steps = 4
    /\ acc = 1

=============================================================================
